---- MODULE Spec2Model ----
(***************************************************************************)
(* The UN Population API client of src/app/src/api_callers.py (class       *)
(* UN_Population) as a state machine.  The client is synchronous: every    *)
(* operation runs from its call to its return or raise, blocking on each   *)
(* HTTP request it issues.  An operation is split here only at those       *)
(* blocking requests, where the remote service picks the answer.           *)
(*                                                                         *)
(* Strings the code builds with f-strings are sequences of words, so that  *)
(* "the message contains the indicator name" is a computed fact.           *)
(***************************************************************************)
EXTENDS Integers, Sequences, FiniteSets, TLC

\* ------------------------------------------------------------------ bounds

\* Longest "data" array of a catalog (/indicators) answer.
MaxCatalog == 2

\* Longest "data" array of a time-series (/data/...) answer.
MaxData == 2

\* Longest selection the user makes in the multiselect.
MaxSelected == 2

\* Longest "data" array of an answer to a fetch of the dashboard.
MaxViewData == 1

\* ------------------------------------------------------------- value space

\* Python's None, and a session_state that has no 'un_api_key' entry at all.
None == "None"
NotSet == "<not in session_state>"

\* Bearer tokens the environment or the user can supply.
Keys == {"k1", "k2"}

\* What os.environ.get("UN_POPULATION_API_KEY") can give.
EnvValues == {None} \cup Keys

\* What st.text_input gives: the empty string until the user types a key.
InputValues == {""} \cup Keys

\* Python truthiness of an optional string.
Truthy(v) == v \notin {None, NotSet, ""}

\* The location id of "World".
World == 900

\* HTTP statuses the remote service answers with (500: any other status).
Statuses == {200, 401, 500}

\* Indicator names, as sequences of words.
TotalPopulation == <<"Total", "Population">>
TotalPopulationBySex == <<"Total", "Population", "by", "sex">>
Births == <<"Births">>
Deaths == <<"Deaths">>

\* Names a caller may ask for; Deaths is in no catalog the service returns.
RequestedNames == {TotalPopulation, Births, Deaths}

\* Entries of the /indicators answer.  TotalPopulation occurs with two ids:
\* a catalog may list a name twice.
CatalogEntries ==
    { [name |-> TotalPopulation, id |-> 49],
      [name |-> TotalPopulation, id |-> 50],
      [name |-> TotalPopulationBySex, id |-> 46],
      [name |-> Births, id |-> 19] }

\* The locations argument of get_data_for_indicator; <<>> stands for both
\* None and [], which `if locations:` treats alike.
LocationArgs == {<<>>, <<4, 900>>}

\* The limit argument of get_top_populated_countries.
Limits == {1, 10}

\* All sequences over S of length at most n.
SeqUpTo(S, n) == UNION { [1..k -> S] : k \in 0..n }

\* ------------------------------------------------------------ JSON answers

\* A JSON object that may lack its "name"/"id" members, or a JSON null, or
\* no member at all in the enclosing item.
Absent == [tag |-> "absent", hasName |-> FALSE, name |-> "", hasId |-> FALSE, id |-> 0]
Null == [tag |-> "null", hasName |-> FALSE, name |-> "", hasId |-> FALSE, id |-> 0]
Obj(hasName, name, hasId, id) ==
    [tag |-> "object", hasName |-> hasName, name |-> name, hasId |-> hasId, id |-> id]

\* Items of a /data answer.  Every item carries timeLabel and value; the
\* nested location and variant vary over absent, null, nameless and named.
DataItems ==
    { [timeLabel |-> "2020", value |-> 78,
       location |-> Obj(TRUE, "World", TRUE, World), variant |-> Obj(TRUE, "Median", FALSE, 0)],
      [timeLabel |-> "Q1", value |-> 38,
       location |-> Obj(TRUE, "Afghanistan", TRUE, 4), variant |-> Absent],
      [timeLabel |-> "2021", value |-> 79,
       location |-> Absent, variant |-> Obj(FALSE, "", TRUE, 4)],
      [timeLabel |-> "2021", value |-> 79,
       location |-> Obj(FALSE, "", FALSE, 0), variant |-> Obj(TRUE, "Median", FALSE, 0)],
      [timeLabel |-> "2020", value |-> 78,
       location |-> Null, variant |-> Obj(TRUE, "Median", FALSE, 0)],
      [timeLabel |-> "2020", value |-> 78,
       location |-> Obj(TRUE, "World", TRUE, World), variant |-> Null] }

\* A response body: not JSON at all (response.json() raises), or an object
\* with or without a "data" member.
InvalidBody == [valid |-> FALSE, hasData |-> FALSE, data |-> <<>>]
NoDataBody == [valid |-> TRUE, hasData |-> FALSE, data |-> <<>>]
DataBody(d) == [valid |-> TRUE, hasData |-> TRUE, data |-> d]

BodiesOver(S, n) == {InvalidBody, NoDataBody} \cup { DataBody(d) : d \in SeqUpTo(S, n) }

\* The answer to one request: requests.get raised (no response), or a
\* response with a status and, for 200, a body.
Pending == [kind |-> "pending", status |-> 0, body |-> InvalidBody]
Failed == [kind |-> "failed", status |-> 0, body |-> InvalidBody]
Answered(s, b) == [kind |-> "answered", status |-> s, body |-> b]

AnswersOver(S, n) ==
    {Failed} \cup { Answered(200, b) : b \in BodiesOver(S, n) }
             \cup { Answered(s, InvalidBody) : s \in Statuses \ {200} }

\* ------------------------------------------------------ credential lookup

\* _get_api_key: the session value if truthy, else the environment default
\* (which it also caches in the session), else None.  `key` is what it
\* returns and `session` what st.session_state.un_api_key is afterwards.
GetApiKey(session, env) ==
    IF Truthy(session) THEN [key |-> session, session |-> session, prompted |-> FALSE]
    ELSE IF Truthy(env) THEN [key |-> env, session |-> env, prompted |-> FALSE]
    ELSE [key |-> None, session |-> session, prompted |-> FALSE]

\* _check_api_key_input: _get_api_key, and when that gives nothing the
\* prompt is rendered and its value `typed`, if truthy, is cached and used.
CheckApiKeyInput(session, env, typed) ==
    LET got == GetApiKey(session, env)
    IN  IF ~Truthy(got.key)
        THEN IF Truthy(typed)
             THEN [key |-> typed, session |-> typed, prompted |-> TRUE]
             ELSE [key |-> None, session |-> got.session, prompted |-> TRUE]
        ELSE got

\* ---------------------------------------------------------------- outcomes

\* How a call (or a step of one) ends: a returned value or a raised
\* exception with its message; `clear` says st.session_state.un_api_key was
\* set to None on the way.
Return(v) == [kind |-> "return", value |-> v, msg |-> <<>>, clear |-> FALSE]
ReturnClearing(v) == [kind |-> "return", value |-> v, msg |-> <<>>, clear |-> TRUE]
Raise(m) == [kind |-> "raise", value |-> <<>>, msg |-> m, clear |-> FALSE]
NoResult == [kind |-> "none", value |-> <<>>, msg |-> <<>>, clear |-> FALSE]

\* str() of the exceptions the libraries raise.
ConnectionError == <<"ConnectionError">>
JSONDecodeError == <<"JSONDecodeError">>
KeyErrorYear == <<"'year'">>
NoneHasNoGet == <<"'NoneType'", "object", "has", "no", "attribute", "'get'">>

\* f"Error fetching indicators: {status}" and f"Error fetching targets: {status}"
FetchError(what, status) == <<"Error", "fetching", what>> \o <<ToString(status)>>

\* f"Indicator name '{indicator_name}' not found"
NotFound(indicator_name) ==
    <<"Indicator", "name", "'">> \o indicator_name \o <<"'", "not", "found">>

\* f"Error fetching data for {indicator_name}: {e}"
Wrapped(indicator_name, e) ==
    <<"Error", "fetching", "data", "for">> \o indicator_name \o <<":">> \o e

\* Python's `needle in haystack` on strings, word by word.
Contains(haystack, needle) ==
    \E i \in 0..(Len(haystack) - Len(needle)) :
        \A j \in 1..Len(needle) : haystack[i + j] = needle[j]

\* ------------------------------------------------------------- the catalog

\* RawOutcome with the 401 branch forgetting to clear the cached key.
RawOutcomeKeepsKey(what, answer) ==
    IF answer.kind = "failed" THEN Raise(ConnectionError)
    ELSE IF answer.status = 200
         THEN IF answer.body.valid THEN Return(answer.body) ELSE Raise(JSONDecodeError)
    ELSE IF answer.status = 401 THEN Return(DataBody(<<>>))
    ELSE Raise(FetchError(what, answer.status))

\* get_indicators and get_available_targets from the answer on: 200 gives
\* response.json(), 401 clears the cached key and gives {"data": []}, any
\* other status raises.
RawOutcome(what, answer) ==
    IF answer.kind = "failed" THEN Raise(ConnectionError)
    ELSE IF answer.status = 200
         THEN IF answer.body.valid THEN Return(answer.body) ELSE Raise(JSONDecodeError)
    ELSE IF answer.status = 401 THEN ReturnClearing(DataBody(<<>>))
    ELSE Raise(FetchError(what, answer.status))

\* A Python dict as the sequence of its items in insertion order: storing
\* under a key already present replaces the value in place.
DictPut(d, name, id) ==
    IF \E i \in 1..Len(d) : d[i].name = name
    THEN [i \in 1..Len(d) |-> IF d[i].name = name THEN [name |-> name, id |-> id] ELSE d[i]]
    ELSE Append(d, [name |-> name, id |-> id])

RECURSIVE DictOf(_)
DictOf(entries) ==
    IF entries = <<>> THEN <<>>
    ELSE LET n == Len(entries)
         IN  DictPut(DictOf(SubSeq(entries, 1, n - 1)), entries[n].name, entries[n].id)

DictHas(d, name) == \E i \in 1..Len(d) : d[i].name = name
DictGet(d, name) == d[CHOOSE i \in 1..Len(d) : d[i].name = name].id

\* get_indicator_names from get_indicators' returned JSON on.
IndicatorNames(indicators_data) ==
    IF indicators_data.hasData THEN DictOf(indicators_data.data) ELSE <<>>

\* get_indicator_names as a whole, from the answer on.
NamesOutcome(answer) ==
    LET raw == RawOutcome("indicators:", answer)
    IN  IF raw.kind = "raise" THEN raw
        ELSE [raw EXCEPT !.value = IndicatorNames(raw.value)]

\* --------------------------------------------------------- the time series

\* pd.DataFrame() and pd.DataFrame(records): a frame is the sequence of its
\* rows; the frame without rows has no columns either.
EmptyFrame == <<>>

\* NestedName with the inner .get('name') given no default.
NestedNameNoDefault(o) ==
    IF o.tag = "absent" THEN None
    ELSE IF o.hasName THEN o.name ELSE None

\* item.get(k, {}).get('name', 'Unknown') for a member that is absent or an
\* object (for null the second .get raises, see RaisesOnGet).
NestedName(o) ==
    IF o.tag = "absent" THEN "Unknown"
    ELSE IF o.hasName THEN o.name ELSE "Unknown"

\* item.get(k, {}) gives None for a JSON null, and None has no .get.
RaisesOnGet(o) == o.tag = "null"

\* The record built from one item of the data array.
ShapeRecord(item) ==
    [year |-> item.timeLabel, value |-> item.value,
     location |-> NestedName(item.location), variant |-> NestedName(item.variant)]

ShapeRaises(item) == RaisesOnGet(item.location) \/ RaisesOnGet(item.variant)

\* pd.to_numeric(column, errors='ignore'): the parsed numbers when every
\* label parses, else the column as it was.
IsNumeric(label) == label \in {"2020", "2021"}
ParseYear(label) == CASE label = "2020" -> 2020 [] label = "2021" -> 2021
ToNumeric(records) ==
    IF \A i \in 1..Len(records) : IsNumeric(records[i].year)
    THEN [i \in 1..Len(records) |-> [records[i] EXCEPT !.year = ParseYear(@)]]
    ELSE records

\* The body of a 200 answer turned into a frame: the loop over data['data'],
\* pd.DataFrame(records) and the df['year'] conversion, which needs the
\* column to exist.
ShapeFrame(data) ==
    IF \E i \in 1..Len(data) : ShapeRaises(data[i]) THEN Raise(NoneHasNoGet)
    ELSE IF data = <<>> THEN Raise(KeyErrorYear)
    ELSE Return(ToNumeric([i \in 1..Len(data) |-> ShapeRecord(data[i])]))

\* get_data_for_indicator from the data answer on, inside the try block.
DataOutcome(answer) ==
    IF answer.kind = "failed" THEN Raise(ConnectionError)
    ELSE IF answer.status = 200
         THEN IF ~answer.body.valid THEN Raise(JSONDecodeError)
              ELSE IF answer.body.hasData THEN ShapeFrame(answer.body.data)
              ELSE Return(EmptyFrame)
    ELSE IF answer.status = 401 THEN ReturnClearing(EmptyFrame)
    ELSE Raise(<<ToString(answer.status)>>)

\* Rewrap as a bare `raise`: the exception leaves as it was raised.
RewrapBare(indicator_name, outcome) == outcome

\* The except clause of get_data_for_indicator: whatever was raised inside
\* the try block is raised again with the indicator name in front.
Rewrap(indicator_name, outcome) ==
    IF outcome.kind = "raise"
    THEN [outcome EXCEPT !.msg = Wrapped(indicator_name, outcome.msg)]
    ELSE outcome

\* ResolveName as indicators_dict.get(indicator_name, 49): an unknown name
\* falls back to a default id.
ResolveNameDefault(indicator_name, names) ==
    IF names.kind = "raise" THEN [found |-> FALSE, id |-> 0, error |-> names.msg]
    ELSE IF ~DictHas(names.value, indicator_name)
         THEN [found |-> TRUE, id |-> 49, error |-> <<>>]
    ELSE [found |-> TRUE, id |-> DictGet(names.value, indicator_name), error |-> <<>>]

\* The name lookup of get_data_for_indicator, given what get_indicator_names
\* gave: the id to request, or the exception raised inside the try block.
ResolveName(indicator_name, names) ==
    IF names.kind = "raise" THEN [found |-> FALSE, id |-> 0, error |-> names.msg]
    ELSE IF ~DictHas(names.value, indicator_name)
         THEN [found |-> FALSE, id |-> 0, error |-> NotFound(indicator_name)]
    ELSE [found |-> TRUE, id |-> DictGet(names.value, indicator_name), error |-> <<>>]

\* ------------------------------------------------------ location discovery

\* The keys of indicators_dict whose name contains "Total Population", in
\* dict order.
RECURSIVE PopulationIndicators(_)
PopulationIndicators(d) ==
    IF d = <<>> THEN <<>>
    ELSE LET rest == PopulationIndicators(Tail(d))
         IN  IF Contains(Head(d).name, TotalPopulation) THEN <<Head(d).name>> \o rest ELSE rest

\* The try block of get_top_populated_countries up to the request: the id
\* to request, or the early `return [900]` (an exception of the catalog
\* fetch ends in the bare except, which returns [900] too).
ResolvePopulation(names) ==
    IF names.kind = "raise" THEN [found |-> FALSE, id |-> 0]
    ELSE LET population_indicators == PopulationIndicators(names.value)
         IN  IF population_indicators = <<>> THEN [found |-> FALSE, id |-> 0]
             ELSE [found |-> TRUE, id |-> DictGet(names.value, population_indicators[1])]

\* The ids collected into location_ids; `'id' in item['location']` raises
\* for a JSON null.
LocationIds(data) ==
    { data[i].location.id : i \in { j \in 1..Len(data) :
          data[j].location.tag = "object" /\ data[j].location.hasId } }

LocationIdsRaises(data) == \E i \in 1..Len(data) : data[i].location.tag = "null"

\* list(location_ids)[:limit]: the set in any order, cut to limit elements.
Min(a, b) == IF a <= b THEN a ELSE b
Listings(S, limit) ==
    { SubSeq(l, 1, Min(limit, Len(l))) :
        l \in { f \in [1..Cardinality(S) -> S] : \A i, j \in 1..Cardinality(S) : f[i] = f[j] => i = j } }

\* TopResults with the last else branch raising as get_data_for_indicator's
\* does, outside any except.
TopResultsRaising(answer, limit) ==
    IF answer.kind = "failed" THEN {Return(<<World>>)}
    ELSE IF answer.status = 200
         THEN IF ~answer.body.valid THEN {Return(<<World>>)}
              ELSE IF answer.body.hasData /\ answer.body.data # <<>>
                   THEN IF LocationIdsRaises(answer.body.data) THEN {Return(<<World>>)}
                        ELSE { Return(l) : l \in Listings(LocationIds(answer.body.data), limit) }
              ELSE {Return(<<World>>)}
    ELSE IF answer.status = 401 THEN {ReturnClearing(<<World>>)}
    ELSE {Raise(<<ToString(answer.status)>>)}

\* get_top_populated_countries from the data answer on: what it may return.
\* Every exception ends in the bare except.
TopResults(answer, limit) ==
    IF answer.kind = "failed" THEN {Return(<<World>>)}
    ELSE IF answer.status = 200
         THEN IF ~answer.body.valid THEN {Return(<<World>>)}
              ELSE IF answer.body.hasData /\ answer.body.data # <<>>
                   THEN IF LocationIdsRaises(answer.body.data) THEN {Return(<<World>>)}
                        ELSE { Return(l) : l \in Listings(LocationIds(answer.body.data), limit) }
              ELSE {Return(<<World>>)}
    ELSE IF answer.status = 401 THEN {ReturnClearing(<<World>>)}
    ELSE {Return(<<World>>)}

\* -------------------------------------------------------------------- state

VARIABLES
    un_api_key,       \* st.session_state.un_api_key, NotSet while there is no such entry
    self_api_key,     \* self.api_key, read from the environment by __init__
    key_input,        \* what st.text_input last gave (widget "api_key_input")
    prompted,         \* whether the current/last operation rendered the key prompt
    pc,               \* "idle", or the request the running operation blocks on
    op,               \* the current/last operation
    indicator_name,   \* its arguments
    locations,
    limit,
    api_key,          \* its local api_key
    indicators_dict,  \* its local indicators_dict
    log,              \* the HTTP requests it issued, each with its status
    response,         \* its local response: the answer it received last
    result            \* how it ended

\* The dashboard script of src/UN_population/app/src/streamlit_app.py, which
\* Streamlit runs from top to bottom on every user interaction.
VARIABLES
    all_indicators,       \* st.session_state.all_indicators: present or not, and its value
    selected_indicators,  \* what the multiselect gave in the current/last run
    at,                   \* where the run is: "start", "load", "tab1", "tab2", "done"
    idx,                  \* the tab's loop: index of the indicator being fetched
    all_data,             \* tab2's all_data: how many frames it holds
    shown,                \* what the current/last run rendered from the load block on
    rerun                 \* whether the current/last run is a rerun of the session

dash == <<all_indicators, selected_indicators, at, idx, all_data, shown, rerun>>

vars == <<un_api_key, self_api_key, key_input, prompted, pc, op, indicator_name,
          locations, limit, api_key, indicators_dict, log, response, result, dash>>

\* Request URLs, headers and the log of one operation.
IndicatorsUrl == [endpoint |-> "indicators", indicator |-> 0, locations |-> <<>>]
TargetsUrl == [endpoint |-> "targets", indicator |-> 0, locations |-> <<>>]
DataUrl(indicator_id, locs) ==
    [endpoint |-> "data", indicator |-> indicator_id,
     locations |-> IF locs # <<>> THEN locs ELSE <<World>>]

Request(url, token) == [url |-> url, token |-> token, state |-> "pending", status |-> 0]

\* The log with its last (pending) request answered.
AnswerLast(l, answer) ==
    [l EXCEPT ![Len(l)].state = answer.kind, ![Len(l)].status = answer.status]

\* The key prompt is read only where it is rendered: when _get_api_key
\* gives nothing.
Typed(session, env) ==
    IF Truthy(GetApiKey(session, env).key) THEN {""} ELSE InputValues

\* st.session_state.un_api_key after a step that may have cleared it.
AfterClear(clear, session) == IF clear THEN None ELSE session

Init ==
    /\ un_api_key = NotSet
    /\ self_api_key \in EnvValues
    /\ key_input = ""
    /\ prompted = FALSE
    /\ pc = "idle"
    /\ op = "none"
    /\ indicator_name = <<>>
    /\ locations = <<>>
    /\ limit = 10
    /\ api_key = None
    /\ indicators_dict = <<>>
    /\ log = <<>>
    /\ response = Pending
    /\ result = NoResult
    /\ all_indicators = [present |-> FALSE, value |-> <<>>]
    /\ selected_indicators = <<>>
    /\ at = "start"
    /\ idx = 0
    /\ all_data = 0
    /\ shown = <<>>
    /\ rerun = FALSE

\* An operation is entered with its arguments.
Called(o, name, locs, lim) ==
    /\ op' = o
    /\ indicator_name' = name
    /\ locations' = locs
    /\ limit' = lim
    /\ indicators_dict' = <<>>
    /\ UNCHANGED self_api_key

\* An operation begins: its name and arguments replace the last one's.
Begin(o, name, locs, lim) ==
    /\ pc = "idle"
    /\ Called(o, name, locs, lim)
    /\ UNCHANGED dash

\* The operation ends without a (further) request.
Finish(sofar, answer, outcome) ==
    /\ pc' = "idle"
    /\ log' = IF answer.kind = "pending" THEN sofar ELSE AnswerLast(sofar, answer)
    /\ response' = answer
    /\ result' = outcome

\* The operation issues a request and blocks on it.
Send(sofar, where, url, token) ==
    /\ pc' = where
    /\ log' = Append(sofar, Request(url, token))
    /\ response' = Pending
    /\ result' = NoResult

\* The credential lookup that starts an operation: `r` is what _get_api_key or
\* _check_api_key_input gave, `typed` what the prompt gave if it was rendered.
Resolved(r, typed) ==
    /\ api_key' = r.key
    /\ prompted' = r.prompted
    /\ key_input' = IF r.prompted THEN typed ELSE key_input

\* ---------------------------------------------------------- get_indicators

\* Lines 41-50, for get_indicators itself (o = "get_indicators") and as
\* called by get_indicator_names: no key gives {"data": []} without a request.
StartIndicators(o, typed) ==
    LET r == CheckApiKeyInput(un_api_key, self_api_key, typed)
    IN  /\ Resolved(r, typed)
        /\ un_api_key' = r.session
        /\ IF ~Truthy(r.key)
           THEN Finish(<<>>, Pending,
                       IF o = "get_indicators" THEN Return(DataBody(<<>>))
                       ELSE Return(IndicatorNames(DataBody(<<>>))))
           ELSE Send(<<>>, "indicators", IndicatorsUrl, r.key)

get_indicators ==
    /\ Begin("get_indicators", <<>>, <<>>, 10)
    /\ \E typed \in Typed(un_api_key, self_api_key) : StartIndicators("get_indicators", typed)

get_indicators_answered ==
    /\ pc = "indicators" /\ op = "get_indicators"
    /\ \E answer \in AnswersOver(CatalogEntries, MaxCatalog) :
         LET outcome == RawOutcome("indicators:", answer)
         IN  /\ un_api_key' = AfterClear(outcome.clear, un_api_key)
             /\ Finish(log, answer, outcome)
    /\ UNCHANGED <<dash, self_api_key, key_input, prompted, op, indicator_name, locations,
                   limit, api_key, indicators_dict>>

get_indicator_names ==
    /\ Begin("get_indicator_names", <<>>, <<>>, 10)
    /\ \E typed \in Typed(un_api_key, self_api_key) :
         StartIndicators("get_indicator_names", typed)

get_indicator_names_answered ==
    /\ pc = "indicators" /\ op = "get_indicator_names"
    /\ \E answer \in AnswersOver(CatalogEntries, MaxCatalog) :
         LET outcome == NamesOutcome(answer)
         IN  /\ un_api_key' = AfterClear(outcome.clear, un_api_key)
             /\ Finish(log, answer, outcome)
    /\ UNCHANGED <<dash, self_api_key, key_input, prompted, op, indicator_name, locations,
                   limit, api_key, indicators_dict>>

\* ---------------------------------------------------- get_available_targets

\* get_available_targets without its `if not api_key` early return.
get_available_targets_unguarded ==
    /\ Begin("get_available_targets", <<>>, <<>>, 10)
    /\ LET r == GetApiKey(un_api_key, self_api_key)
       IN  /\ Resolved(r, "")
           /\ un_api_key' = r.session
           /\ Send(<<>>, "targets", TargetsUrl, r.key)

get_available_targets ==
    /\ Begin("get_available_targets", <<>>, <<>>, 10)
    /\ LET r == GetApiKey(un_api_key, self_api_key)
       IN  /\ Resolved(r, "")
           /\ un_api_key' = r.session
           /\ IF ~Truthy(r.key)
              THEN Finish(<<>>, Pending, Return(DataBody(<<>>)))
              ELSE Send(<<>>, "targets", TargetsUrl, r.key)

get_available_targets_answered ==
    /\ pc = "targets"
    /\ \E answer \in AnswersOver({}, 0) :
         LET outcome == RawOutcome("targets:", answer)
         IN  /\ un_api_key' = AfterClear(outcome.clear, un_api_key)
             /\ Finish(log, answer, outcome)
    /\ UNCHANGED <<dash, self_api_key, key_input, prompted, op, indicator_name, locations,
                   limit, api_key, indicators_dict>>

\* --------------------------------------------------- get_data_for_indicator

\* Lines 104-109: _get_api_key, then get_indicator_names, whose
\* get_indicators resolves the key again through _check_api_key_input.
get_data_for_indicator ==
    \E name \in RequestedNames, locs \in LocationArgs, typed \in Typed(un_api_key, self_api_key) :
        /\ Begin("get_data_for_indicator", name, locs, 10)
        /\ LET outer == GetApiKey(un_api_key, self_api_key)
               inner == CheckApiKeyInput(outer.session, self_api_key, typed)
               nothing == ResolveName(name, Return(IndicatorNames(DataBody(<<>>))))
           IN  IF ~Truthy(outer.key)
               THEN /\ Resolved(outer, typed)
                    /\ un_api_key' = outer.session
                    /\ Finish(<<>>, Pending, Return(EmptyFrame))
               ELSE /\ Resolved([inner EXCEPT !.key = outer.key], typed)
                    /\ un_api_key' = inner.session
                    /\ IF ~Truthy(inner.key)
                       THEN Finish(<<>>, Pending, Rewrap(name, Raise(nothing.error)))
                       ELSE Send(<<>>, "indicators", IndicatorsUrl, inner.key)

\* Lines 109-125: the catalog answer, the name lookup and the data request.
get_data_for_indicator_catalog ==
    /\ pc = "indicators" /\ op = "get_data_for_indicator"
    /\ \E answer \in AnswersOver(CatalogEntries, MaxCatalog) :
         LET names == NamesOutcome(answer)
             resolved == ResolveName(indicator_name, names)
         IN  /\ un_api_key' = AfterClear(names.clear, un_api_key)
             /\ indicators_dict' = IF names.kind = "return" THEN names.value ELSE <<>>
             /\ IF resolved.found
                THEN Send(AnswerLast(log, answer), "data",
                          DataUrl(resolved.id, locations), api_key)
                ELSE Finish(log, answer, Rewrap(indicator_name, Raise(resolved.error)))
    /\ UNCHANGED <<dash, self_api_key, key_input, prompted, op, indicator_name, locations,
                   limit, api_key>>

\* get_data_for_indicator_data with a retry: a status other than 200 and
\* 401 sends the data request again.
get_data_for_indicator_data_retrying ==
    /\ pc = "data" /\ op = "get_data_for_indicator"
    /\ \E answer \in AnswersOver(DataItems, MaxData) :
         LET outcome == Rewrap(indicator_name, DataOutcome(answer))
         IN  IF answer.kind = "answered" /\ answer.status \notin {200, 401}
             THEN /\ UNCHANGED un_api_key
                  /\ Send(AnswerLast(log, answer), "data", log[Len(log)].url, api_key)
             ELSE /\ un_api_key' = AfterClear(outcome.clear, un_api_key)
                  /\ Finish(log, answer, outcome)
    /\ UNCHANGED <<dash, self_api_key, key_input, prompted, op, indicator_name, locations,
                   limit, api_key, indicators_dict>>

\* Lines 127-156: the data answer.
get_data_for_indicator_data ==
    /\ pc = "data" /\ op = "get_data_for_indicator"
    /\ \E answer \in AnswersOver(DataItems, MaxData) :
         LET outcome == Rewrap(indicator_name, DataOutcome(answer))
         IN  /\ un_api_key' = AfterClear(outcome.clear, un_api_key)
             /\ Finish(log, answer, outcome)
    /\ UNCHANGED <<dash, self_api_key, key_input, prompted, op, indicator_name, locations,
                   limit, api_key, indicators_dict>>

\* ---------------------------------------------- get_top_populated_countries

\* Lines 160-165.
get_top_populated_countries ==
    \E lim \in Limits, typed \in Typed(un_api_key, self_api_key) :
        /\ Begin("get_top_populated_countries", <<>>, <<>>, lim)
        /\ LET outer == GetApiKey(un_api_key, self_api_key)
               inner == CheckApiKeyInput(outer.session, self_api_key, typed)
           IN  IF ~Truthy(outer.key)
               THEN /\ Resolved(outer, typed)
                    /\ un_api_key' = outer.session
                    /\ Finish(<<>>, Pending, Return(<<World>>))
               ELSE /\ Resolved([inner EXCEPT !.key = outer.key], typed)
                    /\ un_api_key' = inner.session
                    /\ IF ~Truthy(inner.key)
                       THEN Finish(<<>>, Pending, Return(<<World>>))
                       ELSE Send(<<>>, "indicators", IndicatorsUrl, inner.key)

\* Lines 165-176: the catalog answer, the population indicator and the request.
get_top_populated_countries_catalog ==
    /\ pc = "indicators" /\ op = "get_top_populated_countries"
    /\ \E answer \in AnswersOver(CatalogEntries, MaxCatalog) :
         LET names == NamesOutcome(answer)
             resolved == ResolvePopulation(names)
         IN  /\ un_api_key' = AfterClear(names.clear, un_api_key)
             /\ indicators_dict' = IF names.kind = "return" THEN names.value ELSE <<>>
             /\ IF resolved.found
                THEN Send(AnswerLast(log, answer), "data", DataUrl(resolved.id, <<>>), api_key)
                ELSE Finish(log, answer, Return(<<World>>))
    /\ UNCHANGED <<dash, self_api_key, key_input, prompted, op, indicator_name, locations,
                   limit, api_key>>

\* Lines 178-197: the data answer.
get_top_populated_countries_data ==
    /\ pc = "data" /\ op = "get_top_populated_countries"
    /\ \E answer \in AnswersOver(DataItems, MaxData) :
         \E outcome \in TopResults(answer, limit) :
             /\ un_api_key' = AfterClear(outcome.clear, un_api_key)
             /\ Finish(log, answer, outcome)
    /\ UNCHANGED <<dash, self_api_key, key_input, prompted, op, indicator_name, locations,
                   limit, api_key, indicators_dict>>

\* ------------------------------------------------------------ specification

Next ==
    \/ get_indicators
    \/ get_indicators_answered
    \/ get_indicator_names
    \/ get_indicator_names_answered
    \/ get_available_targets
    \/ get_available_targets_answered
    \/ get_data_for_indicator
    \/ get_data_for_indicator_catalog
    \/ get_data_for_indicator_data
    \/ get_top_populated_countries
    \/ get_top_populated_countries_catalog
    \/ get_top_populated_countries_data

Spec == Init /\ [][Next]_vars

\* ------------------------------------------------------------ the dashboard

\* NeedsLoad as `not st.session_state.get('all_indicators')`: an empty
\* catalog is loaded again.
NeedsLoadWhenEmpty(indicators) == ~indicators.present \/ indicators.value = <<>>

\* Line 66: the load block runs when the session has no all_indicators yet.
NeedsLoad(indicators) == ~indicators.present

\* Something the run rendered: an st.error, st.warning or st.info, or a
\* chart, in the load block or a tab, about an indicator (<<>> for none).
Message(where, kind, name) == [where |-> where, kind |-> kind, indicator |-> name]

\* Lines 68-75: what the load block stores and shows, given how
\* get_indicator_names ended: its mapping, or {} and an error.
LoadHandle(outcome) ==
    IF outcome.kind = "raise"
    THEN [escapes |-> FALSE, value |-> <<>>, shown |-> <<Message("load", "error", <<>>)>>]
    ELSE [escapes |-> FALSE, value |-> outcome.value, shown |-> <<>>]

\* list(d.keys())
DictKeys(d) == [i \in 1..Len(d) |-> d[i].name]

\* Lines 86-95: what the multiselect gives.  In the first run it is the
\* default, the first three options; later whatever the user picked, in the
\* order picked, or the default left alone.  The search term only narrows
\* the options, so every selection of distinct catalog names can be made.
Selections(names, first) ==
    IF first THEN {SubSeq(names, 1, Min(3, Len(names)))}
    ELSE {SubSeq(names, 1, Min(3, Len(names)))} \cup
         { sel \in SeqUpTo({ names[i] : i \in 1..Len(names) }, MaxSelected) :
               \A i, j \in 1..Len(sel) : sel[i] = sel[j] => i = j }

\* Lines 104-109 of the client as the dashboard calls it: the two credential
\* lookups that start get_data_for_indicator, the prompt's widget value being
\* `typed`.  `token` is what the catalog request carries when one is sent;
\* otherwise `outcome` is how the call ends.
StartFetch(session, env, typed, name) ==
    LET outer == GetApiKey(session, env)
        inner == CheckApiKeyInput(outer.session, env, typed)
        nothing == ResolveName(name, Return(IndicatorNames(DataBody(<<>>))))
    IN  IF ~Truthy(outer.key)
        THEN [sends |-> FALSE, lookup |-> outer, session |-> outer.session,
              token |-> None, outcome |-> Return(EmptyFrame)]
        ELSE [sends |-> Truthy(inner.key),
              lookup |-> [inner EXCEPT !.key = outer.key], session |-> inner.session,
              token |-> inner.key, outcome |-> Rewrap(name, Raise(nothing.error))]

\* Tab1Handle with the fetch (line 135) before the try: its exception leaves
\* the script.
Tab1HandleUncaught(outcome, rendered) ==
    IF outcome.kind = "raise" THEN [escapes |-> TRUE, kind |-> "error"]
    ELSE IF outcome.value = EmptyFrame THEN [escapes |-> FALSE, kind |-> "warning"]
    ELSE IF rendered THEN [escapes |-> FALSE, kind |-> "chart"]
    ELSE [escapes |-> FALSE, kind |-> "error"]

\* Lines 134-140 and 249-250: what one iteration of tab1 shows, given how the
\* fetch ended and whether the charts rendered.  Everything is inside the
\* try, so nothing escapes.
Tab1Handle(outcome, rendered) ==
    IF outcome.kind = "raise" THEN [escapes |-> FALSE, kind |-> "error"]
    ELSE IF outcome.value = EmptyFrame THEN [escapes |-> FALSE, kind |-> "warning"]
    ELSE IF rendered THEN [escapes |-> FALSE, kind |-> "chart"]
    ELSE [escapes |-> FALSE, kind |-> "error"]

\* Lines 254-265 and 325-326: one iteration of tab2's loop.  The try is
\* around the whole loop: an exception ends the loop with an error; a frame
\* is collected unless it is empty.
Tab2Handle(outcome, prepared) ==
    IF outcome.kind = "raise" THEN [escapes |-> FALSE, kind |-> "error"]
    ELSE IF outcome.value = EmptyFrame THEN [escapes |-> FALSE, kind |-> "skip"]
    ELSE IF prepared THEN [escapes |-> FALSE, kind |-> "collect"]
    ELSE [escapes |-> FALSE, kind |-> "error"]

\* Every way get_indicator_names can end once its request is answered, with
\* the answer's status.
CatalogOutcomes ==
    { [kind |-> answer.kind, status |-> answer.status, names |-> NamesOutcome(answer)] :
      answer \in AnswersOver(CatalogEntries, MaxCatalog) }

\* The client call has returned into the script, which has used what it
\* gave: the call's locals are gone.
Returned ==
    /\ pc' = "idle"
    /\ log' = <<>>
    /\ response' = Pending
    /\ result' = NoResult

\* An exception left the script: the run is over where it stood.
Escaped ==
    /\ at' = "crashed"
    /\ UNCHANGED <<all_indicators, selected_indicators, idx, all_data, shown, rerun>>

\* The load block is over, having stored a catalog: the sidebar is next.
Loaded(handled) ==
    IF handled.escapes THEN Escaped
    ELSE /\ all_indicators' = [present |-> TRUE, value |-> handled.value]
         /\ shown' = shown \o handled.shown
         /\ at' = "sidebar"
         /\ UNCHANGED <<selected_indicators, idx, all_data, rerun>>

\* Lines 66-69: the load block up to the catalog request.  The prompt of
\* _check_api_key_input gives the widget's value, "" when first rendered.
DashLoad ==
    /\ at = "start" /\ pc = "idle"
    /\ IF NeedsLoad(all_indicators)
       THEN LET r == CheckApiKeyInput(un_api_key, self_api_key, key_input)
            IN  /\ Called("get_indicator_names", <<>>, <<>>, 10)
                /\ Resolved(r, key_input)
                /\ un_api_key' = r.session
                /\ IF ~Truthy(r.key)
                   THEN /\ Returned
                        /\ Loaded(LoadHandle(Return(IndicatorNames(DataBody(<<>>)))))
                   ELSE /\ Send(<<>>, "indicators", IndicatorsUrl, r.key)
                        /\ at' = "load"
                        /\ UNCHANGED <<all_indicators, selected_indicators, idx,
                                       all_data, shown, rerun>>
       ELSE /\ at' = "sidebar"
            /\ UNCHANGED <<un_api_key, self_api_key, key_input, prompted, pc, op,
                           indicator_name, locations, limit, api_key, indicators_dict,
                           log, response, result, all_indicators, selected_indicators,
                           idx, all_data, shown, rerun>>

\* Lines 69-75: the catalog answer arrives in the load block.
DashLoadAnswered ==
    /\ at = "load" /\ pc = "indicators"
    /\ \E answered \in CatalogOutcomes :
         /\ un_api_key' = AfterClear(answered.names.clear, un_api_key)
         /\ Returned
         /\ Loaded(LoadHandle(answered.names))
    /\ UNCHANGED <<self_api_key, key_input, prompted, op, indicator_name, locations,
                   limit, api_key, indicators_dict>>

\* Lines 77-125: the sidebar and the start of fetch_and_visualize.  The
\* session's all_indicators is always a dict here, so lines 82-84 do nothing.
\* An empty selection ends the run with a warning.
DashSelect ==
    /\ at = "sidebar"
    /\ \E sel \in Selections(DictKeys(all_indicators.value), ~rerun) :
         /\ selected_indicators' = sel
         /\ IF sel = <<>>
            THEN /\ at' = "done" /\ idx' = 0
                 /\ shown' = Append(shown, Message("main", "warning", <<>>))
            ELSE /\ at' = "tab1" /\ idx' = 1
                 /\ shown' = shown
    /\ UNCHANGED <<un_api_key, self_api_key, key_input, prompted, pc, op, indicator_name,
                   locations, limit, api_key, indicators_dict, log, response, result,
                   all_indicators, all_data, rerun>>

\* Lines 131-250: an iteration of tab1 is over.  After the last one comes
\* tab2 (lines 252-253, 327-328), which needs two indicators.
Tab1Iterated(name, handled) ==
    IF handled.escapes THEN Escaped
    ELSE /\ IF idx < Len(selected_indicators)
            THEN /\ at' = "tab1" /\ idx' = idx + 1
                 /\ shown' = Append(shown, Message("tab1", handled.kind, name))
            ELSE IF Len(selected_indicators) > 1
            THEN /\ at' = "tab2" /\ idx' = 1
                 /\ shown' = Append(shown, Message("tab1", handled.kind, name))
            ELSE /\ at' = "done" /\ idx' = 0
                 /\ shown' = shown \o <<Message("tab1", handled.kind, name),
                                        Message("tab2", "info", <<>>)>>
         /\ UNCHANGED <<all_indicators, selected_indicators, all_data, rerun>>

\* Lines 254-326: an iteration of tab2's loop is over.  An exception ends
\* the tab; after the last iteration the collected frames are drawn, which
\* is inside the try as well.
Tab2Iterated(handled, drawn) ==
    LET collected == IF handled.kind = "collect" THEN all_data + 1 ELSE all_data
    IN  IF handled.escapes THEN Escaped
        ELSE /\ IF handled.kind = "error"
                THEN /\ at' = "done" /\ idx' = 0 /\ all_data' = 0
                     /\ shown' = Append(shown, Message("tab2", "error", <<>>))
                ELSE IF idx < Len(selected_indicators)
                THEN /\ at' = "tab2" /\ idx' = idx + 1 /\ all_data' = collected
                     /\ shown' = shown
                ELSE /\ at' = "done" /\ idx' = 0 /\ all_data' = 0
                     /\ shown' = Append(shown, Message("tab2",
                                   IF collected = 0 THEN "warning"
                                   ELSE IF drawn THEN "chart" ELSE "error", <<>>))
             /\ UNCHANGED <<all_indicators, selected_indicators, rerun>>

\* Lines 134-140 and 258-265: what the tab that is running makes of a fetch.
Handle(outcome, rendered) ==
    IF at = "tab1" THEN Tab1Handle(outcome, rendered) ELSE Tab2Handle(outcome, rendered)

\* An iteration of the tab that is running is over.
Iterated(name, handled) ==
    IF at = "tab1" THEN Tab1Iterated(name, handled)
    ELSE \E drawn \in BOOLEAN : Tab2Iterated(handled, drawn)

\* Lines 134 and 258: a tab calls get_data_for_indicator for the next
\* selected indicator and the session's locations, which stay [900].
DashFetch ==
    /\ at \in {"tab1", "tab2"} /\ pc = "idle"
    /\ LET name == selected_indicators[idx]
           start == StartFetch(un_api_key, self_api_key, key_input, name)
       IN  /\ Called("get_data_for_indicator", name, <<World>>, 10)
           /\ Resolved(start.lookup, key_input)
           /\ un_api_key' = start.session
           /\ IF start.sends
              THEN /\ Send(<<>>, "indicators", IndicatorsUrl, start.token)
                   /\ UNCHANGED dash
              ELSE /\ Returned
                   /\ \E rendered \in BOOLEAN :
                        Iterated(name, Handle(start.outcome, rendered))

\* Lines 109-125 of the client in a tab's fetch: the catalog answer and the
\* name lookup, which raises or sends the data request.  The local
\* indicators_dict is not read after the lookup and is not kept.
DashFetchCatalog ==
    /\ at \in {"tab1", "tab2"} /\ pc = "indicators"
    /\ \E end \in { [kind |-> answered.kind, status |-> answered.status,
                     clear |-> answered.names.clear,
                     resolved |-> ResolveName(indicator_name, answered.names)] :
                    answered \in CatalogOutcomes } :
         /\ un_api_key' = AfterClear(end.clear, un_api_key)
         /\ IF end.resolved.found
            THEN /\ Send(AnswerLast(log, end), "data",
                         DataUrl(end.resolved.id, locations), api_key)
                 /\ UNCHANGED dash
            ELSE /\ Returned
                 /\ \E rendered \in BOOLEAN :
                      Iterated(indicator_name,
                               Handle(Rewrap(indicator_name, Raise(end.resolved.error)),
                                      rendered))
    /\ UNCHANGED <<self_api_key, key_input, prompted, op, indicator_name, locations,
                   limit, api_key, indicators_dict>>

\* Lines 127-156 of the client in a tab's fetch: the data answer, and what
\* the tab makes of it.
DashFetchData ==
    /\ at \in {"tab1", "tab2"} /\ pc = "data"
    /\ \E end \in { LET outcome == Rewrap(indicator_name, DataOutcome(answer))
                     IN  [clear |-> outcome.clear, handled |-> Handle(outcome, rendered)] :
                    answer \in AnswersOver(DataItems, MaxViewData), rendered \in BOOLEAN } :
         /\ un_api_key' = AfterClear(end.clear, un_api_key)
         /\ Returned
         /\ Iterated(indicator_name, end.handled)
    /\ UNCHANGED <<self_api_key, key_input, prompted, op, indicator_name, locations,
                   limit, api_key, indicators_dict>>

\* The user interacts with the page and Streamlit runs the script again, the
\* session state kept.  A prompt the run rendered may have been typed into.
DashRerun ==
    /\ at = "done"
    /\ at' = "start" /\ rerun' = TRUE
    /\ shown' = <<>> /\ idx' = 0 /\ all_data' = 0
    /\ key_input' \in IF prompted THEN InputValues ELSE {key_input}
    /\ prompted' = FALSE
    /\ UNCHANGED <<un_api_key, self_api_key, pc, op, indicator_name, locations, limit,
                   api_key, indicators_dict, log, response, result, all_indicators,
                   selected_indicators>>

DashNext ==
    \/ DashLoad
    \/ DashLoadAnswered
    \/ DashSelect
    \/ DashFetch
    \/ DashFetchCatalog
    \/ DashFetchData
    \/ DashRerun

\* A session of the dashboard.
Dashboard == Init /\ [][DashNext]_vars

\* ------------------------------------------------------------------ claims

\* The remote service answered 401 to a request of the current/last operation.
Rejected == \E i \in 1..Len(log) : log[i].state = "answered" /\ log[i].status = 401

\* C1: for every operation that issues requests and whatever the cached
\* credential was before, once the remote service has answered 401 the
\* session-cached credential st.session_state.un_api_key is None: when the
\* 401 is handled, and still when the operation returns or raises.
C1_KeyClearedOn401 == Rejected => un_api_key = None

\* C1 happens: a data request of get_top_populated_countries, sent with a
\* resolved credential, was answered 401 and the operation has returned.
C1_Witness ==
    /\ pc = "idle" /\ op = "get_top_populated_countries"
    /\ Len(log) = 2 /\ log[2].state = "answered" /\ log[2].status = 401
    /\ Truthy(api_key)
    /\ un_api_key = None

\* C2 as claimed: in get_data_for_indicator a 401 answer to any request of
\* the fetch (catalog or data) ends in a cleared credential and an empty
\* frame being returned, never in an exception.
C2_401IsEmptyResult ==
    (pc = "idle" /\ op = "get_data_for_indicator" /\ Rejected)
        => (result.kind = "return" /\ result.value = EmptyFrame /\ un_api_key = None)

\* What each operation returns when it has no credential.
EmptyResult(o) ==
    CASE o \in {"get_indicators", "get_available_targets"} -> Return(DataBody(<<>>))
      [] o = "get_indicator_names" -> Return(<<>>)
      [] o = "get_data_for_indicator" -> Return(EmptyFrame)
      [] o = "get_top_populated_countries" -> Return(<<World>>)

\* Every request went out with a credential, one the environment or the
\* key prompt supplied.
RequestsCarryCredential ==
    \A i \in 1..Len(log) :
        Truthy(log[i].token) /\ log[i].token \in {self_api_key, key_input}

\* A step that starts an operation while the session cache and the
\* environment default hold no credential and the prompt, if the operation
\* renders it, gives none.
NoCredentialStep ==
    /\ pc = "idle"
    /\ ~Truthy(un_api_key)
    /\ ~Truthy(self_api_key)
    /\ prompted' => ~Truthy(key_input')

\* C3: an operation started when none of the three credential sources
\* yields a credential returns its empty result without issuing a request;
\* no request is ever sent without a credential, and the credential sent
\* always came from the environment default or the key prompt (the session
\* cache holds nothing else).
C3_NoUnauthenticatedCall ==
    /\ []RequestsCarryCredential
    /\ [][NoCredentialStep =>
            (pc' = "idle" /\ log' = <<>> /\ result' = EmptyResult(op'))]_vars

\* C3 happens: after a 401 cleared the cache and with no environment
\* default, get_data_for_indicator returned the empty frame with no request.
C3_Witness ==
    /\ pc = "idle" /\ op = "get_data_for_indicator"
    /\ un_api_key = None /\ ~Truthy(self_api_key)
    /\ log = <<>>
    /\ result = Return(EmptyFrame)

\* The operations whose credential lookup can render the key prompt.
PromptingOps == {"get_indicators", "get_indicator_names"}

\* The credential the remote service rejected.
RejectedToken ==
    log[CHOOSE i \in 1..Len(log) : log[i].state = "answered" /\ log[i].status = 401].token

\* C4 as claimed: after a 401 the credential state behaves like Unset with
\* no default: the next operation that can prompt does prompt, and the next
\* request, if one is sent, carries a freshly prompted credential and not
\* the rejected one again -- with or without an environment default.
C4_RepromptAfter401 ==
    [][(pc = "idle" /\ Rejected) =>
          /\ op' \in PromptingOps => prompted'
          /\ log' # <<>> => (prompted' \/ log'[1].token # RejectedToken)]_vars

\* get_data_for_indicator has returned or raised after a 200 answer to its
\* data request whose body has a data array.
DataAnswered ==
    /\ pc = "idle" /\ op = "get_data_for_indicator"
    /\ Len(log) = 2
    /\ response.kind = "answered" /\ response.status = 200
    /\ response.body.valid /\ response.body.hasData

\* No item of the data array has a JSON null for location or variant.
ItemsShaped == \A i \in 1..Len(response.body.data) : ~ShapeRaises(response.body.data[i])

\* C5 as claimed, even with the items restricted to the documented shape: a
\* 200 data answer with a data array of n >= 0 items gives exactly n
\* records, the i-th built from the i-th item.
C5_OneRecordPerItem ==
    (DataAnswered /\ ItemsShaped) =>
        /\ result.kind = "return"
        /\ Len(result.value) = Len(response.body.data)
        /\ \A i \in 1..Len(response.body.data) :
              result.value[i].value = response.body.data[i].value

\* C6: a data request of get_data_for_indicator is only ever sent for a name
\* that is a key of the catalog fetched during the call, with the id the
\* catalog gives it (no stale or default id); when the call ends after the
\* catalog fetch with the name not a key, it raised an error naming the
\* indicator and sent no data request.
C6_UnknownNameRaises ==
    op = "get_data_for_indicator" =>
        /\ Len(log) = 2 =>
              /\ DictHas(indicators_dict, indicator_name)
              /\ log[2].url.indicator = DictGet(indicators_dict, indicator_name)
        /\ (pc = "idle" /\ Len(log) = 1 /\ ~DictHas(indicators_dict, indicator_name)) =>
              /\ result.kind = "raise"
              /\ Contains(result.msg, indicator_name)

\* C6 happens: a non-empty catalog was fetched, the name is not in it, the
\* call raised the not-found error and only the catalog request went out.
C6_Witness ==
    /\ pc = "idle" /\ op = "get_data_for_indicator"
    /\ Len(log) = 1 /\ log[1].status = 200
    /\ indicators_dict # <<>>
    /\ ~DictHas(indicators_dict, indicator_name)
    /\ result.kind = "raise"
    /\ Contains(result.msg, NotFound(indicator_name))

\* The failure cases of get_top_populated_countries: no credential, a
\* request that raised or was answered other than 200, no population
\* indicator in the catalog, or a 200 data answer without items.
TopFailure ==
    \/ log = <<>>
    \/ \E i \in 1..Len(log) : log[i].state = "failed" \/ log[i].status # 200
    \/ Len(log) = 1
    \/ /\ Len(log) = 2
       /\ ~response.body.valid \/ ~response.body.hasData \/ response.body.data = <<>>

\* C7: get_top_populated_countries never raises, and in every failure case
\* it returns exactly [900].
C7_TopNeverRaises ==
    (pc = "idle" /\ op = "get_top_populated_countries") =>
        /\ result.kind = "return"
        /\ TopFailure => result.value = <<World>>

\* C7 happens: the data request was answered 500 and [900] came back.
C7_Witness ==
    /\ pc = "idle" /\ op = "get_top_populated_countries"
    /\ Len(log) = 2 /\ log[2].state = "answered" /\ log[2].status = 500
    /\ result.kind = "return" /\ result.value = <<World>>

\* A nested member without a name: the object is absent, or has no "name".
LacksName(o) == o.tag = "absent" \/ (o.tag = "object" /\ ~o.hasName)

NonePending == \A i \in 1..Len(log) : log[i].state # "pending"

\* C9 as claimed: every operation issues at most one HTTP request per
\* invocation, completed before the operation returns.
C9_AtMostOneRequest ==
    /\ Len(log) <= 1
    /\ pc = "idle" => NonePending

\* C9 amended: get_indicators, get_indicator_names and get_available_targets
\* issue at most one request; get_data_for_indicator and
\* get_top_populated_countries at most two, the catalog request and then one
\* data request; a request is answered before the next is sent and before
\* the operation returns.
C9_AtMostTwoRequests ==
    /\ Len(log) <= (IF op \in {"get_data_for_indicator", "get_top_populated_countries"}
                    THEN 2 ELSE 1)
    /\ Len(log) = 2 =>
          /\ log[1].url.endpoint = "indicators" /\ log[1].state # "pending"
          /\ log[2].url.endpoint = "data"
    /\ pc = "idle" => NonePending

\* C9 happens: get_data_for_indicator returned after two answered requests.
C9_Witness ==
    /\ pc = "idle" /\ op = "get_data_for_indicator"
    /\ Len(log) = 2 /\ NonePending
    /\ result.kind = "return"

\* C10: every exception that leaves get_data_for_indicator starts with
\* "Error fetching data for" and the requested indicator name; when the data
\* request was answered with a status other than 200 and 401 the message
\* also holds that status; and the failed request was the only data request
\* (no retry).
C10_ErrorsNameTheIndicator ==
    (pc = "idle" /\ op = "get_data_for_indicator" /\ result.kind = "raise") =>
        /\ Len(result.msg) >= 4 + Len(indicator_name)
        /\ SubSeq(result.msg, 1, 4 + Len(indicator_name))
              = <<"Error", "fetching", "data", "for">> \o indicator_name
        /\ (Len(log) = 2 /\ log[2].state = "answered" /\ log[2].status \notin {200, 401}) =>
              Contains(result.msg, <<ToString(log[2].status)>>)
        /\ Cardinality({ i \in 1..Len(log) : log[i].url.endpoint = "data" }) <= 1
        /\ Cardinality({ i \in 1..Len(log) : log[i].url.endpoint = "indicators" }) <= 1

\* C10 happens: the data request was answered 500 and the exception names
\* the indicator and the status.
C10_Witness ==
    /\ pc = "idle" /\ op = "get_data_for_indicator"
    /\ Len(log) = 2 /\ log[2].state = "answered" /\ log[2].status = 500
    /\ result.kind = "raise"
    /\ result.msg = Wrapped(indicator_name, <<"500">>)

\* What tab1 has rendered in this run, and the indicators it was about.
Tab1Shown == SelectSeq(shown, LAMBDA m : m.where = "tab1")
Attempted == [i \in 1..Len(Tab1Shown) |-> Tab1Shown[i].indicator]

\* How many iterations of tab1 are over.
Tab1Over ==
    IF at = "tab1" THEN idx - 1
    ELSE IF at \in {"tab2", "done"} THEN Len(selected_indicators)
    ELSE 0

\* How far the run is: every step of a run moves it on.
Phase == IF pc = "idle" THEN 0 ELSE IF pc = "indicators" THEN 1 ELSE 2
Progress ==
    IF at = "start" THEN 0
    ELSE IF at = "load" THEN 1
    ELSE IF at = "sidebar" THEN 2
    ELSE IF at = "tab1" THEN 3 * idx + Phase
    ELSE IF at = "tab2" THEN 3 * (Len(selected_indicators) + idx) + Phase
    ELSE 3 * (2 * Len(selected_indicators) + 2)

\* No exception leaves the script; a run that is not over can take a step;
\* a failed load leaves the empty catalog; tab1 has shown one message for
\* each selected indicator it has got to, in selection order, whatever the
\* earlier fetches gave.
Handled ==
    /\ at # "crashed"
    /\ at # "done" => ENABLED DashNext
    /\ at \in {"sidebar", "tab1", "tab2", "done"} => all_indicators.present
    /\ (\E i \in 1..Len(shown) : shown[i] = Message("load", "error", <<>>))
         => all_indicators.value = <<>>
    /\ at \in {"tab1", "tab2"} => idx \in 1..Len(selected_indicators)
    /\ Attempted = SubSeq(selected_indicators, 1, Tab1Over)

\* C11: every error of a client operation is caught and shown, so a run of
\* the dashboard always reaches its end: no exception leaves the script, every
\* step moves the run on and a run that is not over can take one; a failed
\* catalog load leaves the empty catalog; and tab1 fetches every selected
\* indicator in selection order, a failure or an empty result for one not
\* stopping the next.
C11_RunReachesItsEnd ==
    /\ []Handled
    /\ [][at # "done" => at' # "crashed" /\ Progress' > Progress]_vars

\* A run is over in which tab1's first fetch failed and its second gave a
\* chart.
C11_Witness ==
    /\ at = "done"
    /\ Len(Tab1Shown) = 2
    /\ Tab1Shown[1].kind = "error"
    /\ Tab1Shown[2].kind = "chart"

\* C12: once the session has all_indicators, no step changes it and no rerun
\* sends the catalog request of the load block, whatever the catalog is and
\* whatever credential has been supplied since.
C12_CatalogWrittenOnce ==
    [][/\ all_indicators.present => all_indicators' = all_indicators
       /\ rerun' => at' # "load"]_vars

\* A rerun is over in which the catalog is still the empty one of the first
\* run although a credential has been typed since.
C12_Witness ==
    /\ rerun /\ at = "done"
    /\ all_indicators.present /\ all_indicators.value = <<>>
    /\ Truthy(key_input)

====
